---- MODULE Spec2Model ----
(***************************************************************************)
(* The edge-tests template customizers of page/developer/edge-tests/       *)
(* _template: fix_all_pages.py, customize_all.py and customize_scripts.py. *)
(* Each is a batch script that reads the demo script.js (and, for          *)
(* fix_all_pages.py, style.css), applies str.replace in a fixed order and  *)
(* writes the result under edge-tests-<class_key>/.                        *)
(*                                                                         *)
(* A Python str is modelled as a sequence of one-character strings, so     *)
(* that str.replace, str.lower and str.title are computed, not assumed.    *)
(***************************************************************************)
EXTENDS Naturals, Sequences, FiniteSets

\* ----------------------------------------------------------------------
\* str helpers
\* ----------------------------------------------------------------------

UpperLetters == <<"A","B","C","D","E","F","G","H","I","J","K","L","M",
                  "N","O","P","Q","R","S","T","U","V","W","X","Y","Z">>

LowerLetters == <<"a","b","c","d","e","f","g","h","i","j","k","l","m",
                  "n","o","p","q","r","s","t","u","v","w","x","y","z">>

IsUpper(c) == \E i \in 1..26 : UpperLetters[i] = c

IsLower(c) == \E i \in 1..26 : LowerLetters[i] = c

IsCased(c) == IsUpper(c) \/ IsLower(c)

LowerChar(c) ==
  IF IsUpper(c) THEN LowerLetters[CHOOSE i \in 1..26 : UpperLetters[i] = c] ELSE c

UpperChar(c) ==
  IF IsLower(c) THEN UpperLetters[CHOOSE i \in 1..26 : LowerLetters[i] = c] ELSE c

\* str.lower()
lower(s) == [i \in 1..Len(s) |-> LowerChar(s[i])]

\* str.title(): a cased character is upper-cased when the character before it
\* is uncased (or there is none), lower-cased otherwise
title(s) ==
  [i \in 1..Len(s) |->
     IF i = 1 \/ ~IsCased(s[i-1]) THEN UpperChar(s[i]) ELSE LowerChar(s[i])]

\* s.replace(' ', '')
remove_spaces(s) == SelectSeq(s, LAMBDA c : c # " ")

\* the positions at which old occurs in s
occurrences(s, old) ==
  {i \in 1..(Len(s) + 1 - Len(old)) :
     s[i] = old[1] /\ SubSeq(s, i, i + Len(old) - 1) = old}

\* s.replace(old, new): the leftmost occurrence is replaced, the scan resumes
\* after it (occurrences never overlap), the rest is copied
replace(s, old, new) ==
  LET occ == occurrences(s, old)
      RECURSIVE R(_)
      R(i) == LET rest == {j \in occ : j >= i}
              IN IF rest = {} THEN SubSeq(s, i, Len(s))
                 ELSE LET j == CHOOSE k \in rest : \A l \in rest : k <= l
                      IN SubSeq(s, i, j - 1) \o new \o R(j + Len(old))
  IN R(1)

\* old in s
contains(s, old) == occurrences(s, old) # {}

\* for old, new in replacements: content = content.replace(old, new)
RECURSIVE apply_replacements(_, _)
apply_replacements(content, replacements) ==
  IF replacements = <<>> THEN content
  ELSE apply_replacements(replace(content, replacements[1][1], replacements[1][2]),
                          Tail(replacements))

\* the text each replacement of the list is applied to: element i is the
\* content just before replacements[i] runs
RECURSIVE contents_before(_, _)
contents_before(content, replacements) ==
  IF replacements = <<>> THEN <<>>
  ELSE <<content>> \o
       contents_before(replace(content, replacements[1][1], replacements[1][2]),
                       Tail(replacements))

\* ----------------------------------------------------------------------
\* string literals of the three scripts
\* ----------------------------------------------------------------------

S_Demo_Class == <<"D","e","m","o"," ","C","l","a","s","s">>

S_Class == <<" ","C","l","a","s","s">>

S_demo_template == <<"d","e","m","o","/","t","e","m","p","l","a","t","e">>

S_functionality == <<" ","f","u","n","c","t","i","o","n","a","l","i","t","y">>

S_demo_functionality == <<"d","e","m","o"," ","f","u","n","c","t","i","o","n","a","l","i","t","y">>

S_dq_demo_dq == <<"\"","d","e","m","o","\"">>

S_sq_demo_sq == <<"'","d","e","m","o","'">>

S_slash_demo == <<"/","d","e","m","o">>

S_EdgeTestsDemo == <<"E","d","g","e","T","e","s","t","s","D","e","m","o">>

S_EdgeTests == <<"E","d","g","e","T","e","s","t","s">>

S_br_Edge_Tests_Demo_br == <<"[","E","d","g","e"," ","T","e","s","t","s"," ","D","e","m","o","]">>

S_br_Edge_Tests == <<"[","E","d","g","e"," ","T","e","s","t","s"," ">>

S_Demo_Item == <<"D","e","m","o"," ","I","t","e","m">>

S_demo_item == <<"d","e","m","o"," ","i","t","e","m">>

S_demo_items == <<"d","e","m","o"," ","i","t","e","m","s">>

S_Demo_Items == <<"D","e","m","o"," ","I","t","e","m","s">>

S_brace_userId_brace == <<"{","u","s","e","r","I","d","}">>

S_inputValues_userId == <<"i","n","p","u","t","V","a","l","u","e","s",".","u","s","e","r","I","d">>

S_inputValues_dot == <<"i","n","p","u","t","V","a","l","u","e","s",".">>

S_sq_userId_sq == <<"'","u","s","e","r","I","d","'">>

S_userId == <<"u","s","e","r","I","d">>

S_demo == <<"d","e","m","o">>

S_Demo == <<"D","e","m","o">>

S_Demo_Class_Template == <<"D","e","m","o"," ","C","l","a","s","s"," ","(","T","e","m","p","l","a","t","e",")">>

\* ----------------------------------------------------------------------
\* configuration tables
\* ----------------------------------------------------------------------

\* fix_all_pages.py CLASSES, in dict (insertion) order; there is no 'cart' entry
CLASSES_fix_all_pages == <<
    [class_key |-> <<"w","i","s","h","l","i","s","t">>,
     name |-> <<"W","i","s","h","l","i","s","t">>,
     item |-> <<"W","i","s","h","l","i","s","t"," ","I","t","e","m">>,
     items |-> <<"w","i","s","h","l","i","s","t"," ","i","t","e","m","s">>,
     id_field |-> <<"w","i","s","h","l","i","s","t","I","d">>],
    [class_key |-> <<"c","o","u","p","o","n">>,
     name |-> <<"C","o","u","p","o","n">>,
     item |-> <<"C","o","u","p","o","n">>,
     items |-> <<"c","o","u","p","o","n","s">>,
     id_field |-> <<"c","o","u","p","o","n","I","d">>],
    [class_key |-> <<"s","u","b","s","c","r","i","p","t","i","o","n","s">>,
     name |-> <<"S","u","b","s","c","r","i","p","t","i","o","n","s">>,
     item |-> <<"S","u","b","s","c","r","i","p","t","i","o","n">>,
     items |-> <<"s","u","b","s","c","r","i","p","t","i","o","n","s">>,
     id_field |-> <<"s","u","b","s","c","r","i","p","t","i","o","n","I","d">>],
    [class_key |-> <<"t","r","a","n","s","a","c","t","i","o","n","s">>,
     name |-> <<"T","r","a","n","s","a","c","t","i","o","n","s">>,
     item |-> <<"T","r","a","n","s","a","c","t","i","o","n">>,
     items |-> <<"t","r","a","n","s","a","c","t","i","o","n","s">>,
     id_field |-> <<"t","r","a","n","s","a","c","t","i","o","n","I","d">>],
    [class_key |-> <<"g","a","t","e","w","a","y","-","1">>,
     name |-> <<"G","a","t","e","w","a","y"," ","1">>,
     item |-> <<"G","a","t","e","w","a","y"," ","1"," ","I","t","e","m">>,
     items |-> <<"g","a","t","e","w","a","y"," ","1"," ","i","t","e","m","s">>,
     id_field |-> <<"g","a","t","e","w","a","y","I","d">>],
    [class_key |-> <<"g","a","t","e","w","a","y","-","2">>,
     name |-> <<"G","a","t","e","w","a","y"," ","2">>,
     item |-> <<"G","a","t","e","w","a","y"," ","2"," ","I","t","e","m">>,
     items |-> <<"g","a","t","e","w","a","y"," ","2"," ","i","t","e","m","s">>,
     id_field |-> <<"g","a","t","e","w","a","y","I","d">>],
    [class_key |-> <<"m","e","d","i","a">>,
     name |-> <<"M","e","d","i","a">>,
     item |-> <<"M","e","d","i","a"," ","I","t","e","m">>,
     items |-> <<"m","e","d","i","a"," ","i","t","e","m","s">>,
     id_field |-> <<"m","e","d","i","a","I","d">>],
    [class_key |-> <<"p","r","o","d","u","c","t","s">>,
     name |-> <<"P","r","o","d","u","c","t","s">>,
     item |-> <<"P","r","o","d","u","c","t">>,
     items |-> <<"p","r","o","d","u","c","t","s">>,
     id_field |-> <<"p","r","o","d","u","c","t","I","d">>],
    [class_key |-> <<"o","r","d","e","r","s">>,
     name |-> <<"O","r","d","e","r","s">>,
     item |-> <<"O","r","d","e","r">>,
     items |-> <<"o","r","d","e","r","s">>,
     id_field |-> <<"o","r","d","e","r","I","d">>]
  >>

\* customize_all.py CLASSES, in dict order; no id_field
CLASSES_customize_all == <<
    [class_key |-> <<"c","a","r","t">>,
     name |-> <<"C","a","r","t">>,
     item |-> <<"C","a","r","t"," ","I","t","e","m">>,
     items |-> <<"c","a","r","t"," ","i","t","e","m","s">>],
    [class_key |-> <<"w","i","s","h","l","i","s","t">>,
     name |-> <<"W","i","s","h","l","i","s","t">>,
     item |-> <<"W","i","s","h","l","i","s","t"," ","I","t","e","m">>,
     items |-> <<"w","i","s","h","l","i","s","t"," ","i","t","e","m","s">>],
    [class_key |-> <<"c","o","u","p","o","n">>,
     name |-> <<"C","o","u","p","o","n">>,
     item |-> <<"C","o","u","p","o","n">>,
     items |-> <<"c","o","u","p","o","n","s">>],
    [class_key |-> <<"s","u","b","s","c","r","i","p","t","i","o","n","s">>,
     name |-> <<"S","u","b","s","c","r","i","p","t","i","o","n","s">>,
     item |-> <<"S","u","b","s","c","r","i","p","t","i","o","n">>,
     items |-> <<"s","u","b","s","c","r","i","p","t","i","o","n","s">>],
    [class_key |-> <<"t","r","a","n","s","a","c","t","i","o","n","s">>,
     name |-> <<"T","r","a","n","s","a","c","t","i","o","n","s">>,
     item |-> <<"T","r","a","n","s","a","c","t","i","o","n">>,
     items |-> <<"t","r","a","n","s","a","c","t","i","o","n","s">>],
    [class_key |-> <<"g","a","t","e","w","a","y","-","1">>,
     name |-> <<"G","a","t","e","w","a","y"," ","1">>,
     item |-> <<"G","a","t","e","w","a","y"," ","1"," ","I","t","e","m">>,
     items |-> <<"g","a","t","e","w","a","y"," ","1"," ","i","t","e","m","s">>],
    [class_key |-> <<"g","a","t","e","w","a","y","-","2">>,
     name |-> <<"G","a","t","e","w","a","y"," ","2">>,
     item |-> <<"G","a","t","e","w","a","y"," ","2"," ","I","t","e","m">>,
     items |-> <<"g","a","t","e","w","a","y"," ","2"," ","i","t","e","m","s">>],
    [class_key |-> <<"m","e","d","i","a">>,
     name |-> <<"M","e","d","i","a">>,
     item |-> <<"M","e","d","i","a"," ","I","t","e","m">>,
     items |-> <<"m","e","d","i","a"," ","i","t","e","m","s">>],
    [class_key |-> <<"p","r","o","d","u","c","t","s">>,
     name |-> <<"P","r","o","d","u","c","t","s">>,
     item |-> <<"P","r","o","d","u","c","t">>,
     items |-> <<"p","r","o","d","u","c","t","s">>],
    [class_key |-> <<"o","r","d","e","r","s">>,
     name |-> <<"O","r","d","e","r","s">>,
     item |-> <<"O","r","d","e","r">>,
     items |-> <<"o","r","d","e","r","s">>]
  >>

\* customize_scripts.py CLASSES, in dict order ('scenarios' of cart is never read)
CLASSES_customize_scripts == <<
    [class_key |-> <<"c","a","r","t">>,
     name |-> <<"C","a","r","t">>,
     config_key |-> <<"c","a","r","t">>,
     endpoint_base |-> <<"/","c","a","r","t">>,
     id_field |-> <<"c","a","r","t","I","d">>],
    [class_key |-> <<"w","i","s","h","l","i","s","t">>,
     name |-> <<"W","i","s","h","l","i","s","t">>,
     config_key |-> <<"w","i","s","h","l","i","s","t">>,
     endpoint_base |-> <<"/","w","i","s","h","l","i","s","t">>,
     id_field |-> <<"w","i","s","h","l","i","s","t","I","d">>],
    [class_key |-> <<"c","o","u","p","o","n">>,
     name |-> <<"C","o","u","p","o","n">>,
     config_key |-> <<"c","o","u","p","o","n">>,
     endpoint_base |-> <<"/","c","o","u","p","o","n">>,
     id_field |-> <<"c","o","u","p","o","n","I","d">>],
    [class_key |-> <<"s","u","b","s","c","r","i","p","t","i","o","n","s">>,
     name |-> <<"S","u","b","s","c","r","i","p","t","i","o","n","s">>,
     config_key |-> <<"s","u","b","s","c","r","i","p","t","i","o","n","s">>,
     endpoint_base |-> <<"/","s","u","b","s","c","r","i","p","t","i","o","n","s">>,
     id_field |-> <<"s","u","b","s","c","r","i","p","t","i","o","n","I","d">>],
    [class_key |-> <<"t","r","a","n","s","a","c","t","i","o","n","s">>,
     name |-> <<"T","r","a","n","s","a","c","t","i","o","n","s">>,
     config_key |-> <<"t","r","a","n","s","a","c","t","i","o","n","s">>,
     endpoint_base |-> <<"/","t","r","a","n","s","a","c","t","i","o","n","s">>,
     id_field |-> <<"t","r","a","n","s","a","c","t","i","o","n","I","d">>],
    [class_key |-> <<"g","a","t","e","w","a","y","-","1">>,
     name |-> <<"G","a","t","e","w","a","y"," ","1">>,
     config_key |-> <<"g","a","t","e","w","a","y","-","1">>,
     endpoint_base |-> <<"/","g","a","t","e","w","a","y","-","1">>,
     id_field |-> <<"g","a","t","e","w","a","y","I","d">>],
    [class_key |-> <<"g","a","t","e","w","a","y","-","2">>,
     name |-> <<"G","a","t","e","w","a","y"," ","2">>,
     config_key |-> <<"g","a","t","e","w","a","y","-","2">>,
     endpoint_base |-> <<"/","g","a","t","e","w","a","y","-","2">>,
     id_field |-> <<"g","a","t","e","w","a","y","I","d">>],
    [class_key |-> <<"m","e","d","i","a">>,
     name |-> <<"M","e","d","i","a">>,
     config_key |-> <<"m","e","d","i","a">>,
     endpoint_base |-> <<"/","m","e","d","i","a">>,
     id_field |-> <<"m","e","d","i","a","I","d">>],
    [class_key |-> <<"p","r","o","d","u","c","t","s">>,
     name |-> <<"P","r","o","d","u","c","t","s">>,
     config_key |-> <<"p","r","o","d","u","c","t","s">>,
     endpoint_base |-> <<"/","p","r","o","d","u","c","t","s">>,
     id_field |-> <<"p","r","o","d","u","c","t","I","d">>],
    [class_key |-> <<"o","r","d","e","r","s">>,
     name |-> <<"O","r","d","e","r","s">>,
     config_key |-> <<"o","r","d","e","r","s">>,
     endpoint_base |-> <<"/","o","r","d","e","r","s">>,
     id_field |-> <<"o","r","d","e","r","I","d">>]
  >>

\* ----------------------------------------------------------------------
\* the text transformations
\* ----------------------------------------------------------------------

\* fix_all_pages.py customize_script: the replacements list
fix_all_pages_replacements(class_key, config) ==
  << <<S_Demo_Class, config.name \o S_Class>>,
     <<S_demo_template, lower(config.name) \o S_functionality>>,
     <<S_dq_demo_dq, <<"\"">> \o class_key \o <<"\"">> >>,
     <<S_sq_demo_sq, <<"'">> \o class_key \o <<"'">> >>,
     <<S_slash_demo, <<"/">> \o class_key>>,
     <<S_EdgeTestsDemo, S_EdgeTests \o remove_spaces(config.name)>>,
     <<S_br_Edge_Tests_Demo_br, S_br_Edge_Tests \o config.name \o <<"]">> >>,
     <<S_Demo_Item, config.item>>,
     <<S_demo_item, lower(config.item)>>,
     <<S_demo_items, config.items>>,
     <<S_Demo_Items, title(config.items)>>,
     <<S_brace_userId_brace, <<"{">> \o config.id_field \o <<"}">> >> >>

\* fix_all_pages.py customize_script: the special handling of userId
fix_all_pages_userId(config, content) ==
  IF config.id_field # S_userId
  THEN replace(replace(content, S_inputValues_userId,
                       S_inputValues_dot \o config.id_field),
               S_sq_userId_sq, <<"'">> \o config.id_field \o <<"'">>)
  ELSE content

\* fix_all_pages.py customize_script: demo script.js text -> target text
fix_all_pages_customize_script(class_key, config, content) ==
  fix_all_pages_userId(config,
     apply_replacements(content, fix_all_pages_replacements(class_key, config)))

\* the plain copy of shutil, the header left as it is
fix_all_pages_copy_style_verbatim(config, content) == content

\* fix_all_pages.py copy_style: demo style.css text -> target text
fix_all_pages_copy_style(config, content) ==
  replace(content, S_Demo_Class_Template, config.name \o S_Class)

\* 'demo item' replaced by the label as configured, not lower-cased
customize_all_replacements_no_lower(class_key, config) ==
  << <<S_Demo_Class, config.name \o S_Class>>,
     <<S_dq_demo_dq, <<"\"">> \o class_key \o <<"\"">> >>,
     <<S_slash_demo, <<"/">> \o class_key>>,
     <<S_EdgeTestsDemo, S_EdgeTests \o remove_spaces(config.name)>>,
     <<S_br_Edge_Tests_Demo_br, S_br_Edge_Tests \o config.name \o <<"]">> >>,
     <<S_Demo_Item, config.item>>,
     <<S_demo_item, config.item>>,
     <<S_demo_items, config.items>>,
     <<S_Demo_Items, title(config.items)>> >>

\* customize_all.py customize_file: the content.replace statements, in order
customize_all_replacements(class_key, config) ==
  << <<S_Demo_Class, config.name \o S_Class>>,
     <<S_dq_demo_dq, <<"\"">> \o class_key \o <<"\"">> >>,
     <<S_slash_demo, <<"/">> \o class_key>>,
     <<S_EdgeTestsDemo, S_EdgeTests \o remove_spaces(config.name)>>,
     <<S_br_Edge_Tests_Demo_br, S_br_Edge_Tests \o config.name \o <<"]">> >>,
     <<S_Demo_Item, config.item>>,
     <<S_demo_item, lower(config.item)>>,
     <<S_demo_items, config.items>>,
     <<S_Demo_Items, title(config.items)>> >>

\* customize_all.py customize_file: demo script.js text -> target text
customize_all_customize_file(class_key, config, content) ==
  apply_replacements(content, customize_all_replacements(class_key, config))

\* customize_scripts.py customize_script: the replacements list
customize_scripts_replacements(class_name, config) ==
  << <<S_Demo_Class, config.name \o S_Class>>,
     <<S_demo_functionality, lower(config.name) \o S_functionality>>,
     <<S_demo, config.config_key>>,
     <<S_Demo, config.name>>,
     <<S_slash_demo, config.endpoint_base>>,
     <<S_EdgeTestsDemo, S_EdgeTests \o remove_spaces(config.name)>>,
     <<S_br_Edge_Tests_Demo_br, S_br_Edge_Tests \o config.name \o <<"]">> >> >>

\* the second re.sub left out
customize_scripts_userId_first_only(config, content) ==
  IF config.id_field # S_userId
  THEN replace(content, S_inputValues_userId, S_inputValues_dot \o config.id_field)
  ELSE content

\* customize_scripts.py customize_script: the two re.sub calls (both patterns
\* match one literal text, both replacements are plain text)
customize_scripts_userId(config, content) ==
  IF config.id_field # S_userId
  THEN replace(replace(content, S_inputValues_userId,
                       S_inputValues_dot \o config.id_field),
               S_brace_userId_brace, <<"{">> \o config.id_field \o <<"}">>)
  ELSE content

\* customize_scripts.py customize_script: demo script.js text -> target text
customize_scripts_customize_script(class_name, config, content) ==
  customize_scripts_userId(config,
     apply_replacements(content, customize_scripts_replacements(class_name, config)))

\* ----------------------------------------------------------------------
\* the three scripts
\* ----------------------------------------------------------------------

Scripts == {"fix_all_pages", "customize_all", "customize_scripts"}

\* the CLASSES table of a script
CLASSES(s) ==
  CASE s = "fix_all_pages" -> CLASSES_fix_all_pages
    [] s = "customize_all" -> CLASSES_customize_all
    [] s = "customize_scripts" -> CLASSES_customize_scripts

\* the files a script produces per class: only fix_all_pages.py calls copy_style
files_of(s) ==
  IF s = "fix_all_pages" THEN <<"script.js", "style.css">> ELSE <<"script.js">>

\* the replacement list a script applies to the demo script.js
replacements_of(s, config) ==
  CASE s = "fix_all_pages" -> fix_all_pages_replacements(config.class_key, config)
    [] s = "customize_all" -> customize_all_replacements(config.class_key, config)
    [] s = "customize_scripts" -> customize_scripts_replacements(config.class_key, config)

\* what a script makes of the text of a demo file for one class
customize(s, file, config, content) ==
  CASE file = "style.css" -> fix_all_pages_copy_style(config, content)
    [] s = "fix_all_pages" ->
         fix_all_pages_customize_script(config.class_key, config, content)
    [] s = "customize_all" ->
         customize_all_customize_file(config.class_key, config, content)
    [] s = "customize_scripts" ->
         customize_scripts_customize_script(config.class_key, config, content)

\* the patterns of the replacement list that occur in the text at their turn
rules_matched(content, replacements) ==
  LET before == contents_before(content, replacements)
  IN {replacements[i][1] : i \in {j \in 1..Len(replacements) :
                                    contains(before[j], replacements[j][1])}}

\* ----------------------------------------------------------------------
\* the file system
\* ----------------------------------------------------------------------

\* os.path.join(base_dir, 'edge-tests-demo', file)
demo_path(file) == <<S_demo, file>>

\* the target built from the demo directory
target_path_demo(class_key, file) == <<S_demo, file>>

\* os.path.join(base_dir, f'edge-tests-{class_key}', file)
target_path(class_key, file) == <<class_key, file>>

\* the directories edge-tests-<class_key> of all three tables
ClassKeys ==
  UNION {{CLASSES(s)[i].class_key : i \in 1..Len(CLASSES(s))} : s \in Scripts}

FileNames == {"script.js", "style.css"}

Paths == (ClassKeys \cup {S_demo}) \X FileNames

OutputPaths == ClassKeys \X FileNames

\* a path that holds no file
Absent == [exists |-> FALSE, data |-> <<>>]

\* a file with the given text
FileOf(text) == [exists |-> TRUE, data |-> text]

\* open(path, 'a'): what the file holds is kept
open_a(file) == [file EXCEPT !.exists = TRUE]

\* open(path, 'w'): the file is created if absent and truncated if present
open_w(file) == [exists |-> TRUE, data |-> <<>>]

\* f.write(content), then the close that ends the with block: the text lands
\* after what the open left in the file
write(file, content) == [file EXCEPT !.data = @ \o content]

\* ----------------------------------------------------------------------
\* bounds and inputs
\* ----------------------------------------------------------------------

\* invocations of the script in a row
MaxRuns == 2

\* fragments per demo script.js text
MaxFrags == 2

\* fragments per demo style.css text
MaxStyleFrags == 1

\* characters that can reach the disk before a write fails
MaxPartial == 1

\* fragments per demo script.js text where the file system can fail
MaxRunFrags == 1

\* the texts a demo script.js is built from: literals the rules look for
Fragments ==
  { S_Demo_Class_Template, S_br_Edge_Tests_Demo_br, S_EdgeTestsDemo,
    S_Demo_Item, S_demo_item, S_Demo_Items, S_demo_items, S_Demo,
    S_inputValues_userId, S_brace_userId_brace, S_slash_demo, <<" ">> }

\* the texts a demo script.js is built from where the file system can fail
RunFragments == { S_Demo_Class, S_slash_demo }

\* the texts a demo style.css is built from
StyleFragments == { S_Demo_Class_Template }

SeqsUpTo(S, n) == UNION {[1..k -> S] : k \in 0..n}

RECURSIVE Flatten(_)
Flatten(frags) ==
  IF frags = <<>> THEN <<>> ELSE frags[1] \o Flatten(Tail(frags))

\* what an output file may hold before the first run
S_old == <<"o","l","d">>

PriorFiles == {Absent, FileOf(S_old)}

\* ----------------------------------------------------------------------
\* state
\* ----------------------------------------------------------------------

VARIABLES
  script,    \* the script being run
  fs,        \* path -> file
  run,       \* number of the current invocation
  pc,        \* position of the invocation
  idx,       \* position in CLASSES.items()
  content,   \* the local variable content
  template,  \* the fragments the demo script.js was built from
  fs0,       \* fs when the current invocation started
  written,   \* paths whose write completed in the current invocation
  last,      \* the path written last in the current invocation, <<>> if none
  matched,   \* patterns of the replacement list that matched for that script.js
  failed     \* an open or a write of the current invocation raised

vars == <<script, fs, run, pc, idx, content, template, fs0, written, last,
          matched, failed>>

config == CLASSES(script)[idx]

\* the with-open-read of a demo file succeeds iff the file is there
readable(path) == fs[path].exists

\* the call of copy_style left out
after_write_no_style(file) ==
  IF idx < Len(CLASSES(script))
  THEN [pc |-> "read_script", idx |-> idx + 1]
  ELSE [pc |-> "done", idx |-> idx]

\* where the loop of __main__ stands once `file` of the class at idx is written:
\* fix_all_pages.py calls copy_style after customize_script, then the loop
\* moves to the next item of CLASSES, or ends
after_write(file) ==
  IF file = "script.js" /\ script = "fix_all_pages"
  THEN [pc |-> "read_style", idx |-> idx]
  ELSE IF idx < Len(CLASSES(script))
       THEN [pc |-> "read_script", idx |-> idx + 1]
       ELSE [pc |-> "done", idx |-> idx]

\* the exception is swallowed and the statement tried again
on_error_retry == pc

\* an uncaught exception ends the invocation
on_error == "failed"

file_at(p) ==
  IF p \in {"read_script", "open_script", "write_script"} THEN "script.js"
  ELSE "style.css"

InitFs(scriptFile, styleFile, prior) ==
  [p \in Paths |->
     IF p = demo_path("script.js") THEN scriptFile
     ELSE IF p = demo_path("style.css") THEN styleFile
     ELSE prior]

InitCommon ==
  /\ run = 1
  /\ pc = "read_script"
  /\ idx = 1
  /\ content = <<>>
  /\ fs0 = fs
  /\ written = {}
  /\ last = <<>>
  /\ matched = {}
  /\ failed = FALSE

\* ----------------------------------------------------------------------
\* Spec: an invocation statement by statement, with the failures of the
\* file system
\* ----------------------------------------------------------------------

Init ==
  /\ script \in Scripts
  /\ template \in SeqsUpTo(RunFragments, MaxRunFrags)
  /\ \E missingScript \in BOOLEAN, missingStyle \in BOOLEAN,
        style \in SeqsUpTo(StyleFragments, MaxStyleFrags), prior \in PriorFiles :
       fs = InitFs(IF missingScript THEN Absent ELSE FileOf(Flatten(template)),
                   IF missingStyle THEN Absent ELSE FileOf(Flatten(style)),
                   prior)
  /\ InitCommon

\* with open(demo, 'r') as f: content = f.read(), and the replacements
Read ==
  /\ pc \in {"read_script", "read_style"}
  /\ readable(demo_path(file_at(pc)))
  /\ content' = customize(script, file_at(pc), config,
                          fs[demo_path(file_at(pc))].data)
  /\ matched' = IF pc = "read_script"
                THEN rules_matched(fs[demo_path("script.js")].data,
                                   replacements_of(script, config))
                ELSE matched
  /\ pc' = IF pc = "read_script" THEN "open_script" ELSE "open_style"
  /\ UNCHANGED <<script, fs, run, idx, template, fs0, written, last, failed>>

\* open(demo, 'r') raises
ReadFail ==
  /\ pc \in {"read_script", "read_style"}
  /\ ~readable(demo_path(file_at(pc)))
  /\ failed' = TRUE
  /\ pc' = on_error
  /\ UNCHANGED <<script, fs, run, idx, content, template, fs0, written, last,
                 matched>>

\* with open(target, 'w') as f
Open ==
  /\ pc \in {"open_script", "open_style"}
  /\ fs' = [fs EXCEPT ![target_path(config.class_key, file_at(pc))] = open_w(@)]
  /\ pc' = IF pc = "open_script" THEN "write_script" ELSE "write_style"
  /\ UNCHANGED <<script, run, idx, content, template, fs0, written, last,
                 matched, failed>>

\* open(target, 'w') raises: no such directory, or no permission
OpenFail ==
  /\ pc \in {"open_script", "open_style"}
  /\ failed' = TRUE
  /\ pc' = on_error
  /\ UNCHANGED <<script, fs, run, idx, content, template, fs0, written, last,
                 matched>>

\* f.write(content) and the close
Write ==
  /\ pc \in {"write_script", "write_style"}
  /\ LET file == IF pc = "write_script" THEN "script.js" ELSE "style.css"
         target == target_path(config.class_key, file)
     IN /\ fs' = [fs EXCEPT ![target] = write(@, content)]
        /\ written' = written \cup {target}
        /\ last' = target
        /\ pc' = after_write(file).pc
        /\ idx' = after_write(file).idx
  /\ UNCHANGED <<script, run, content, template, fs0, matched, failed>>

\* the write raises after n characters reached the file
WriteFail ==
  /\ pc \in {"write_script", "write_style"}
  /\ \E n \in 0..MaxPartial :
       /\ n = 0 \/ n < Len(content)
       /\ fs' = [fs EXCEPT ![target_path(config.class_key, file_at(pc))] =
                   write(@, SubSeq(content, 1, n))]
  /\ failed' = TRUE
  /\ pc' = on_error
  /\ UNCHANGED <<script, run, idx, content, template, fs0, written, last,
                 matched>>

\* the script is invoked again after an invocation that completed
NextRun ==
  /\ pc = "done"
  /\ run < MaxRuns
  /\ run' = run + 1
  /\ pc' = "read_script"
  /\ idx' = 1
  /\ content' = <<>>
  /\ fs0' = fs
  /\ written' = {}
  /\ last' = <<>>
  /\ matched' = {}
  /\ UNCHANGED <<script, fs, template, failed>>

Next == Read \/ ReadFail \/ Open \/ OpenFail \/ Write \/ WriteFail \/ NextRun

Spec == Init /\ [][Next]_vars

\* ----------------------------------------------------------------------
\* SpecRules: the functions as wholes over the demo texts, no failure
\* ----------------------------------------------------------------------

\* only fix_all_pages.py reads the demo style.css
InitRules ==
  /\ script \in Scripts
  /\ template \in SeqsUpTo(Fragments, MaxFrags)
  /\ \E style \in IF script = "fix_all_pages"
                  THEN SeqsUpTo(StyleFragments, MaxStyleFrags)
                  ELSE {<<>>} :
       fs = InitFs(FileOf(Flatten(template)), FileOf(Flatten(style)), Absent)
  /\ InitCommon

\* customize_script(class_key, config) / customize_file(class_key, config)
CustomizeScript ==
  /\ pc = "read_script"
  /\ readable(demo_path("script.js"))
  /\ LET target == target_path(config.class_key, "script.js")
         text == customize(script, "script.js", config,
                           fs[demo_path("script.js")].data)
     IN /\ fs' = [fs EXCEPT ![target] = write(open_w(@), text)]
        /\ content' = text
        /\ written' = written \cup {target}
        /\ last' = target
  /\ matched' = rules_matched(fs[demo_path("script.js")].data,
                              replacements_of(script, config))
  /\ pc' = after_write("script.js").pc
  /\ idx' = after_write("script.js").idx
  /\ UNCHANGED <<script, run, template, fs0, failed>>

\* copy_style(class_key)
CopyStyle ==
  /\ pc = "read_style"
  /\ readable(demo_path("style.css"))
  /\ LET target == target_path(config.class_key, "style.css")
         text == customize(script, "style.css", config,
                           fs[demo_path("style.css")].data)
     IN /\ fs' = [fs EXCEPT ![target] = write(open_w(@), text)]
        /\ content' = text
        /\ written' = written \cup {target}
        /\ last' = target
  /\ pc' = after_write("style.css").pc
  /\ idx' = after_write("style.css").idx
  /\ UNCHANGED <<script, run, template, fs0, matched, failed>>

NextRules == CustomizeScript \/ CopyStyle

SpecRules == InitRules /\ [][NextRules]_vars

\* ----------------------------------------------------------------------
\* properties of an invocation (Spec)
\* ----------------------------------------------------------------------

\* the ten entity keys of the configuration table
EntityKeys ==
  { <<"c","a","r","t">>,
    <<"w","i","s","h","l","i","s","t">>,
    <<"c","o","u","p","o","n">>,
    <<"s","u","b","s","c","r","i","p","t","i","o","n","s">>,
    <<"t","r","a","n","s","a","c","t","i","o","n","s">>,
    <<"g","a","t","e","w","a","y","-","1">>,
    <<"g","a","t","e","w","a","y","-","2">>,
    <<"m","e","d","i","a">>,
    <<"p","r","o","d","u","c","t","s">>,
    <<"o","r","d","e","r","s">> }

K_cart == <<"c","a","r","t">>

\* the entry of a script's table for a class key
class_config(s, key) ==
  CLASSES(s)[CHOOSE i \in 1..Len(CLASSES(s)) : CLASSES(s)[i].class_key = key]

InTable(s, key) == \E i \in 1..Len(CLASSES(s)) : CLASSES(s)[i].class_key = key

\* the demo files the running script reads
SourcesRead == {demo_path(files_of(script)[i]) : i \in 1..Len(files_of(script))}

\* the complete customized text of an output path, from the demo files as
\* they were when the invocation started
Expected(p) ==
  FileOf(customize(script, p[2], class_config(script, p[1]),
                   fs0[demo_path(p[2])].data))

C2_MissingSourceWritesNothing ==
  (\E p \in SourcesRead : ~fs0[p].exists) =>
     /\ pc # "done"
     /\ written = {}
     /\ \A p \in OutputPaths : fs[p] = fs0[p]

\* C3: at every point of an invocation each destination file holds either
\* its previous content or the complete customized content.
C3_NoPartialOutput ==
  \A p \in OutputPaths :
     \/ fs[p] = fs0[p]
     \/ /\ InTable(script, p[1])
        /\ fs0[demo_path(p[2])].exists
        /\ fs[p] = Expected(p)

\* C4: a second invocation in a row leaves every output file as the first
\* left it (fs0 is the file system the first invocation ended with).
C4_Idempotent ==
  (pc = "done" /\ run >= 2) => \A p \in OutputPaths : fs[p] = fs0[p]

C4_Witness ==
  /\ pc = "done"
  /\ run = 2
  /\ \E p \in written : fs[p].data # <<>>

\* C9: the classes are taken in table order, a step changes only a file of
\* the class the loop is at, and once an open or a write has raised nothing
\* more is read or written: the invocation stays where it failed.
C9_FailsOnFirstError ==
  [][ /\ failed => (fs' = fs /\ pc' = pc /\ failed')
      /\ \A p \in Paths : fs'[p] # fs[p] => p[1] = config.class_key
      /\ run' = run => idx' \in {idx, idx + 1}
      /\ (pc' = "failed") = failed' ]_vars

C9_Witness == failed /\ pc = "failed" /\ written # {} /\ idx < Len(CLASSES(script))

\* C10: the two demo files are never written, and every file written holds
\* the customization of the original demo text.
C10_TemplateReadOnly ==
  /\ \A f \in FileNames : fs[demo_path(f)] = fs0[demo_path(f)]
  /\ \A p \in written :
        /\ InTable(script, p[1])
        /\ fs[p] = Expected(p)

C10_Witness == Cardinality(written) >= 2 /\ \E p \in written : fs[p].data # <<>>

\* ----------------------------------------------------------------------
\* properties of the generated text (SpecRules)
\* ----------------------------------------------------------------------

\* number of places at which old occurs in s
count(s, old) == Cardinality(occurrences(s, old))

\* the file written last is a script.js
LastIsScript == last # <<>> /\ last[2] = "script.js"

\* the text of the file written last, the demo text it was made from, and
\* the table entry it was made for
LastOut == fs[last].data

LastDemo == fs[demo_path(last[2])].data

LastConfig == class_config(script, last[1])

C6_WitnessDefault ==
  /\ LastIsScript
  /\ script = "customize_all"
  /\ contains(LastDemo, S_brace_userId_brace)

\* C7: in every generated script.js each 'EdgeTestsDemo' of the demo text has
\* become 'EdgeTests<name without spaces>' and each '[Edge Tests Demo]' has
\* become '[Edge Tests <name>]'.
C7_SpecificBeforeCatchAll ==
  LastIsScript =>
    /\ count(LastOut, S_EdgeTests \o remove_spaces(LastConfig.name))
         = count(LastDemo, S_EdgeTestsDemo)
    /\ count(LastOut, S_br_Edge_Tests \o LastConfig.name \o <<"]">>)
         = count(LastDemo, S_br_Edge_Tests_Demo_br)

\* the phrases of C8 and the text each becomes
ItemPhrases == {S_Demo_Items, S_demo_items, S_Demo_Item, S_demo_item, <<" ">>}

ItemPhraseImage(phrase, cfg) ==
  CASE phrase = S_Demo_Items -> title(cfg.items)
    [] phrase = S_demo_items -> cfg.items
    [] phrase = S_Demo_Item -> cfg.item
    [] phrase = S_demo_item -> lower(cfg.item)
    [] OTHER -> phrase

\* a demo script.js made of the phrases of C8, customized by a script whose
\* table has the item labels
ItemPhraseCase ==
  /\ LastIsScript
  /\ script \in {"fix_all_pages", "customize_all"}
  /\ \A i \in 1..Len(template) : template[i] \in ItemPhrases

ItemPhrasesRewritten ==
  LastOut = Flatten([i \in 1..Len(template) |->
                       ItemPhraseImage(template[i], LastConfig)])

====
